---- MODULE Spec2Model ----
(***************************************************************************)
(* btrfs-snapshotter: the hourly snapshot loop of src/main.rs.             *)
(*                                                                         *)
(* Instants are whole seconds.  The wall clock is read in ticks, a fixed   *)
(* number of ticks to the second, so that the truncation to the second of  *)
(* Zoned::now() is a conversion and not the identity.  Text (directory     *)
(* names, paths, timestamps) is a sequence of one-character strings.       *)
(***************************************************************************)
EXTENDS Integers, Sequences, FiniteSets

VARIABLES
    config,               \* the Config of main: minutes, subvolume_name, the four limits
    wrapped,              \* TRUE once an overflow has wrapped: the build has no overflow checks
    now,                  \* the wall clock, in ticks
    start_time,           \* the clock read main compares the first instant with
    pc,                   \* position of main
    snapshot_time,        \* the scheduled instant, in seconds
    disk,                 \* entries of the snapshot directory: [name, is_dir]
    x,                    \* result of btrfs_snapshots: [ok, paths]
    matching_snapshots,   \* the Vec<Snapshot> of the cycle, a sequence
    next_index,           \* position of the deletion loop in matching_snapshots
    panic,                \* "none", or the expect / overflow that ended the process
    first_snapshot_time,  \* history: the instant the startup computed
    cycle,                \* history: number of cycles completed
    create_result,        \* history: outcome of this cycle's create
    classified,           \* history: whether this cycle ran the classification
    destroy_calls,        \* history: paths destroy was invoked on in this cycle
    selected,             \* history: paths on disk that an earlier cycle chose to delete
    initial_disk,         \* history: the entries of the snapshot directory at the start
    body_ticks,           \* the times the body of a cycle can take on this machine, in ticks
    body_end,             \* history: the clock when sleep_until was last entered
    config_file           \* /etc/btrfs-snapshotter/config.toml: "missing", "malformed" or its table

vars == <<config, wrapped, now, start_time, pc, snapshot_time, disk, x,
          matching_snapshots, next_index, panic, first_snapshot_time, cycle,
          create_result, classified, destroy_calls, selected, initial_disk,
          body_ticks, body_end, config_file>>

----------------------------------------------------------------------------
(* Bounds of the model. *)

\* cycles of the loop a run of the model goes through
MaxCycles == 2
\* most ticks that pass between the two clock reads of the startup
MaxClockGap == 2
\* most entries the snapshot directory holds when the process starts
MaxInitialEntries == 2
\* longest subvolume name drawn for the naming round trip
MaxNameLen == 3
\* seconds by which an overrunning cycle body ends after the next scheduled instant
MaxOverrun == 1

(* Units of time. *)

TicksPerSecond == 2
Minute == 60
Hour == 60 * Minute
Day == 24 * Hour

----------------------------------------------------------------------------
(* Text. *)

\* str::starts_with
StartsWith(s, prefix) ==
    /\ Len(prefix) <= Len(s)
    /\ SubSeq(s, 1, Len(prefix)) = prefix

\* str::replace: every non-overlapping match of pat, left to right, becomes rep
RECURSIVE ReplaceFrom(_, _, _, _)
ReplaceFrom(s, i, pat, rep) ==
    IF i + Len(pat) - 1 > Len(s) THEN SubSeq(s, i, Len(s))
    ELSE IF \A k \in 1..Len(pat) : s[i + k - 1] = pat[k]
         THEN rep \o ReplaceFrom(s, i + Len(pat), pat, rep)
         ELSE <<s[i]>> \o ReplaceFrom(s, i + 1, pat, rep)

Replace(s, pat, rep) == ReplaceFrom(s, 1, pat, rep)

Slash == <<"/">>

\* Path::file_name: the last component of the path, trailing separators dropped;
\* none for a path with no component
FileName(p) ==
    LET body  == {i \in 1..Len(p) : p[i] # "/"}
        last  == CHOOSE i \in body : \A j \in body : j <= i
        seps  == {i \in 1..last : p[i] = "/"}
        first == IF seps = {} THEN 1
                 ELSE (CHOOSE i \in seps : \A j \in seps : j <= i) + 1
    IN  IF body = {} THEN [some |-> FALSE, name |-> <<>>]
        ELSE [some |-> TRUE, name |-> SubSeq(p, first, last)]

\* a byte that is no UTF-8: to_str() of a path holding it is None
InvalidByte == "\\xFF"

ValidUtf8(s) == \A i \in 1..Len(s) : s[i] # InvalidByte

----------------------------------------------------------------------------
(* Zoned timestamps as text. *)

Digits == <<"0", "1", "2", "3", "4", "5", "6", "7", "8", "9">>

IsDigit(c) == \E i \in 1..Len(Digits) : Digits[i] = c

DigitValue(c) == (CHOOSE i \in 1..Len(Digits) : Digits[i] = c) - 1

TwoDigits(n) == <<Digits[(n \div Len(Digits)) + 1], Digits[(n % Len(Digits)) + 1]>>

TwoDigitValue(s, i) == DigitValue(s[i]) * Len(Digits) + DigitValue(s[i + 1])

\* the bracketed time zone annotation, an IANA name with its separator
ZoneText == <<"[", "E", "/", "L", "]">>

\* Zoned::to_string (Display): hours (standing for date and hour), minutes, seconds, zone
ZonedToString(t) ==
    TwoDigits(t \div Hour) \o <<":">> \o TwoDigits((t % Hour) \div Minute)
        \o <<":">> \o TwoDigits(t % Minute) \o ZoneText

TimeTextLen == Len(ZonedToString(0))

\* str::parse::<Zoned>: the inverse of to_string, an error on any other text
Parse(s) ==
    LET wellFormed ==
            /\ Len(s) = TimeTextLen
            /\ \A i \in {1, 2, 4, 5, 7, 8} : IsDigit(s[i])
            /\ s[3] = ":" /\ s[6] = ":"
            /\ SubSeq(s, 9, Len(s)) = ZoneText
            /\ TwoDigitValue(s, 4) < Hour \div Minute
            /\ TwoDigitValue(s, 7) < Minute
    IN  IF wellFormed
        THEN [ok |-> TRUE,
              time |-> TwoDigitValue(s, 1) * Hour + TwoDigitValue(s, 4) * Minute
                          + TwoDigitValue(s, 7)]
        ELSE [ok |-> FALSE, time |-> 0]

----------------------------------------------------------------------------
(* Naming of the snapshot directories. *)

\* config.snapshot_path
SnapshotPath == <<"/", "s", "n", "a", "p", "s", "h", "o", "t", "s">>

\* PathBuf::push: an absolute component replaces the path
PathPush(base, component) ==
    IF StartsWith(component, Slash) THEN component
    ELSE IF Len(base) > 0 /\ base[Len(base)] = "/" THEN base \o component
    ELSE base \o Slash \o component

\* the directory name of the snapshot taken at instant t
SnapshotDirname(subvolume_name, t) ==
    subvolume_name \o <<"-">> \o Replace(ZonedToString(t), Slash, <<"_", "_">>)

\* the destination handed to create_btrfs_snapshot
DestinationPath(subvolume_name, t) ==
    PathPush(SnapshotPath, SnapshotDirname(subvolume_name, t))

\* the path btrfs_snapshots returns for the directory entry called name
ListedPath(name) ==
    Replace(PathPush(SnapshotPath, name), <<"_", "_", "_">>, Slash)

\* one turn of the loop over the listed paths: "skip" for a name of another
\* subvolume, "push" with the Snapshot built, or the expect that fails
DecodeEntry(path, subvolume_name) ==
    LET fn       == FileName(path)
        prefix   == subvolume_name \o <<"-">>
        replaced == Replace(fn.name, <<"_", "_">>, Slash)
        parsed   == Parse(SubSeq(replaced, Len(prefix) + 1, Len(replaced)))
        none     == [snapshot_path |-> path, time |-> 0, keep_hourly |-> FALSE,
                     keep_daily |-> FALSE, keep_weekly |-> FALSE, keep_monthly |-> FALSE]
    IN  IF ~fn.some THEN [kind |-> "file_name", snapshot |-> none]
        ELSE IF ~ValidUtf8(fn.name) THEN [kind |-> "path_utf8", snapshot |-> none]
        ELSE IF ~StartsWith(fn.name, prefix) THEN [kind |-> "skip", snapshot |-> none]
        ELSE IF Len(prefix) > Len(replaced) THEN [kind |-> "slice", snapshot |-> none]
        ELSE IF ~parsed.ok THEN [kind |-> "parse", snapshot |-> none]
        ELSE [kind |-> "push", snapshot |-> [none EXCEPT !.time = parsed.time]]

\* Vec::sort with Ord for Snapshot: ascending by time; Snapshots of equal time
\* stay in the order of the listing, which is any order
RECURSIVE SortedByTime(_)
SortedByTime(S) ==
    IF S = {} THEN {<<>>}
    ELSE UNION {{<<m>> \o rest : rest \in SortedByTime(S \ {m})} :
                m \in {s \in S : \A o \in S : s.time <= o.time}}

----------------------------------------------------------------------------
(* The names and instants the runs are drawn from. *)

\* config.subvolume_name of main
RootfsName == <<"@", "r", "o", "o", "t", "f", "s">>

\* the subvolume names of the naming round trip: no path separator, and long
\* enough to hold the two and three underscores the listing and the decoding
\* look for
NameAlphabet == {"a", "_", "-"}
CodecNames == UNION {[1..n -> NameAlphabet] : n \in 1..MaxNameLen}
SubvolumeNames == {RootfsName} \cup CodecNames

\* the retention limits the runs are drawn from
MaxLimit == 2
MaxLongLimit == 1

\* hours of the snapshots earlier runs may have left, and the hour the run starts
PriorHours == {1, 2, 27, 49}
StartHour == 50
\* the Config main builds, lines 66-75
ConfigLiteral ==
    [minutes |-> 0, subvolume_name |-> RootfsName, hourly_limit |-> 12,
     daily_limit |-> 7, weekly_limit |-> 2, monthly_limit |-> 2]

\* hours of the snapshots of a directory that holds as many as the hourly limit
\* of main: the hours before the run starts
LiteralHours ==
    {h \in 0..(StartHour - 1) : h >= StartHour - ConfigLiteral.hourly_limit}
Instants ==
    {h * Hour : h \in PriorHours \cup LiteralHours \cup {0}}
        \cup {(StartHour + k) * Hour : k \in 0..MaxCycles}

\* a directory of another subvolume, whose name holds three underscores and ends
\* like a snapshot of this one
ForeignDirname(subvolume_name) ==
    <<"a", "_", "_", "_">> \o SnapshotDirname(subvolume_name, 27 * Hour)

\* what the snapshot directory may hold when the process starts: snapshots of
\* earlier runs, a directory of this subvolume with a damaged timestamp, a
\* regular file named like a snapshot, directories of other subvolumes
InitialCandidates(subvolume_name) ==
    {[name |-> SnapshotDirname(subvolume_name, h * Hour), is_dir |-> TRUE] :
        h \in PriorHours}
    \cup {[name |-> subvolume_name \o <<"-", "x">>, is_dir |-> TRUE],
          [name |-> SnapshotDirname(subvolume_name, 0), is_dir |-> FALSE],
          [name |-> <<"h", "o", "m", "e">>, is_dir |-> TRUE],
          [name |-> ForeignDirname(subvolume_name), is_dir |-> TRUE]}

\* The operators on text are evaluated once, over the names of the runs.
Dirnames(subvolume_name) ==
    {e.name : e \in InitialCandidates(subvolume_name)}
        \cup {SnapshotDirname(subvolume_name, t) : t \in Instants}

\* A function is evaluated over its whole domain when it is compared: the tables
\* below are computed once, not at every use.
Evaluated(f) == IF f = f THEN f ELSE f

SnapshotDirnameTable == Evaluated(
    [n \in SubvolumeNames |-> [t \in Instants |-> SnapshotDirname(n, t)]])

ListedPathTable == Evaluated(
    [n \in SubvolumeNames |-> [d \in Dirnames(n) |-> ListedPath(d)]])

DecodeEntryTable == Evaluated(
    [n \in SubvolumeNames |->
        [p \in {ListedPath(d) : d \in Dirnames(n)} |-> DecodeEntry(p, n)]])

\* btrfs_snapshots on a readable directory: the paths of its sub-directories;
\* it panics on a sub-directory whose path is no UTF-8
BtrfsSnapshots(entries, subvolume_name) ==
    LET dirs == {e \in entries : e.is_dir}
    IN  IF \E e \in dirs : ~ValidUtf8(e.name)
        THEN [panic |-> "path_utf8", paths |-> {}]
        ELSE [panic |-> "none",
              paths |-> {ListedPathTable[subvolume_name][e.name] : e \in dirs}]

\* the body of the loop over x: the expects that can fail, or the sorted Vecs
Collect(paths, subvolume_name) ==
    LET decoded == [p \in paths |-> DecodeEntryTable[subvolume_name][p]]
        failed  == {decoded[p].kind : p \in paths} \ {"skip", "push"}
    IN  IF failed # {}
        THEN [panics |-> failed, sorted |-> {}]
        ELSE [panics |-> {},
              sorted |-> SortedByTime({decoded[p].snapshot :
                                         p \in {q \in paths : decoded[q].kind = "push"}})]

----------------------------------------------------------------------------
(* Retention: the four tiers of the classification. *)

\* Snapshot::keep
Keep(snapshot) ==
    snapshot.keep_hourly \/ snapshot.keep_daily \/ snapshot.keep_weekly
        \/ snapshot.keep_monthly

\* Zoned::yesterday: the same wall-clock time one day earlier
Yesterday(t) == t - Day

\* count -= 1 on a usize.  A count is held as the representative in
\* -(2^63) .. 2^63 - 1 of its residue modulo 2^64: a negative count is the
\* wrapped value 2^64 + count, which no scan of a Vec brings back to 0 or 1.
WrappingDecrement(count) == count - 1

\* for i in 0..config.hourly_limit { get_mut(i) ... keep_hourly = true }
MarkHourly(snapshots, hourly_limit) ==
    [i \in 1..Len(snapshots) |->
        IF i <= hourly_limit
        THEN [snapshots[i] EXCEPT !.keep_hourly = TRUE]
        ELSE snapshots[i]]

\* the forward loop of a tier, from the Snapshot at position i on: it marks each
\* Snapshot at or before the boundary, stops on count == 1, and otherwise
\* decrements count (a panic at 0 with overflow checks) and moves the boundary
RECURSIVE ForwardScan(_, _, _, _, _, _)
ForwardScan(snapshots, i, count, time, tier, checks) ==
    IF i > Len(snapshots)
    THEN [snapshots |-> snapshots, count |-> count, panic |-> "none"]
    ELSE IF snapshots[i].time <= time
    THEN LET marked == [snapshots EXCEPT ![i][tier] = TRUE]
         IN  IF count = 1
             THEN [snapshots |-> marked, count |-> count, panic |-> "none"]
             ELSE IF count = 0 /\ checks
             THEN [snapshots |-> marked, count |-> count, panic |-> "overflow"]
             ELSE ForwardScan(marked, i + 1, WrappingDecrement(count),
                              Yesterday(time), tier, checks)
    ELSE ForwardScan(snapshots, i + 1, count, time, tier, checks)

\* the reverse loop of a tier, from the Snapshot at position i down: it stops on
\* count == 0 and marks each Snapshot the tier has not marked yet
RECURSIVE BackFill(_, _, _, _)
BackFill(snapshots, i, count, tier) ==
    IF i = 0 \/ count = 0
    THEN [snapshots |-> snapshots, count |-> count]
    ELSE IF ~snapshots[i][tier]
    THEN BackFill([snapshots EXCEPT ![i][tier] = TRUE], i - 1,
                  WrappingDecrement(count), tier)
    ELSE BackFill(snapshots, i - 1, count, tier)

\* one of the daily, weekly and monthly tiers: its forward loop, then its
\* reverse loop with the count the forward loop left
TierPass(snapshots, tier, limit, reference, checks) ==
    LET forward == ForwardScan(snapshots, 1, limit, Yesterday(reference), tier, checks)
        reverse == BackFill(forward.snapshots, Len(forward.snapshots),
                            forward.count, tier)
    IN  [snapshots |-> IF forward.panic = "none" THEN reverse.snapshots
                       ELSE forward.snapshots,
         panic     |-> forward.panic,
         wrapped   |-> forward.count < 0]

\* the classification of main, on the flags as they stand in snapshots; wrapped
\* tells whether a count went below 0 on the way
Classification(snapshots, cfg, reference, checks) ==
    LET hourly  == MarkHourly(snapshots, cfg.hourly_limit)
        daily   == TierPass(hourly, "keep_daily", cfg.daily_limit, reference, checks)
        weekly  == TierPass(daily.snapshots, "keep_weekly", cfg.weekly_limit,
                            reference, checks)
        monthly == TierPass(weekly.snapshots, "keep_monthly", cfg.monthly_limit,
                            reference, checks)
    IN  IF daily.panic # "none" THEN daily
        ELSE IF weekly.panic # "none"
        THEN [weekly EXCEPT !.wrapped = daily.wrapped]
        ELSE [monthly EXCEPT !.wrapped = daily.wrapped \/ weekly.wrapped
                                            \/ monthly.wrapped]

\* (mutant) the deletion loop placed after the guarded block, not inside it
AfterCollectDeletionUnguarded(len, hourly_limit) ==
    IF len >= hourly_limit THEN "classify" ELSE "delete"

\* if matching_snapshots.len() >= config.hourly_limit { classify; delete }
AfterCollect(len, hourly_limit) ==
    IF len >= hourly_limit THEN "classify" ELSE "advance"

----------------------------------------------------------------------------
(* Startup: the first scheduled instant. *)

\* Zoned::round to Unit::Second with RoundMode::Trunc, of a clock read in ticks
TruncToSecond(ticks) == ticks \div TicksPerSecond

\* .with().minute(minutes).second(0).build(): an error for a minute out of range
WithMinuteSecondZero(t, minutes) ==
    [ok   |-> minutes \in 0..(Hour \div Minute - 1),
     time |-> t - (t % Hour) + minutes * Minute]

\* (mutant) the hour is never added
FirstSnapshotTimeNoCarry(start, first) == first

\* the instant main starts the loop with
FirstSnapshotTime(start, first) ==
    IF first - start < 0 THEN first + Hour ELSE first

----------------------------------------------------------------------------
(* The steps of main. *)

Panicked(reason) ==
    /\ pc' = "panicked"
    /\ panic' = reason

\* lines 62-75: init_logging, which exits with code 1 when the logger cannot be
\* set up, then the Config built from literals.  main does not call
\* init::load_config: the configuration file is not read.
Main ==
    /\ pc = "main"
    /\ \E logging \in {"ok", "err"} :
        IF logging = "err"
        THEN pc' = "exited" /\ UNCHANGED config
        ELSE pc' = "start" /\ config' = ConfigLiteral
    /\ UNCHANGED <<config_file, initial_disk, body_ticks, body_end, wrapped, now, start_time,
                   snapshot_time, disk, x, matching_snapshots, next_index, panic,
                   first_snapshot_time, cycle, create_result, classified,
                   destroy_calls, selected>>

\* lines 76-104: two reads of the clock, then the first scheduled instant
Startup ==
    /\ pc = "start"
    /\ \E gap \in 0..MaxClockGap :
        LET first == WithMinuteSecondZero(TruncToSecond(now + gap), config.minutes)
            started == TruncToSecond(now)
        IN  /\ now' = now + gap
            /\ start_time' = started
            /\ IF first.ok
               THEN /\ snapshot_time' = FirstSnapshotTime(started, first.time)
                    /\ first_snapshot_time' = snapshot_time'
                    /\ pc' = "sleep"
                    /\ UNCHANGED panic
               ELSE /\ Panicked("timestamp")
                    /\ UNCHANGED <<snapshot_time, first_snapshot_time>>
    /\ UNCHANGED <<config_file, initial_disk, body_ticks, body_end,
                   config, wrapped, disk, x, matching_snapshots, next_index,
                   cycle, create_result, classified, destroy_calls, selected>>

\* sleep_until, lines 291-303: the span from the clock, truncated to the second,
\* to next_time, as a Duration, unsigned_abs
SleepDuration(clock, next_time) ==
    LET span == next_time - TruncToSecond(clock)
    IN  IF span < 0 THEN 0 - span ELSE span

\* sleep_until(&snapshot_time), which returns when the duration is over; the
\* cycle begins
Sleep ==
    /\ pc = "sleep"
    /\ cycle < MaxCycles
    /\ pc' = "create"
    /\ body_end' = now
    /\ now' = now + SleepDuration(now, snapshot_time) * TicksPerSecond
    /\ create_result' = "none"
    /\ classified' = FALSE
    /\ destroy_calls' = {}
    /\ x' = [ok |-> FALSE, paths |-> {}]
    /\ matching_snapshots' = <<>>
    /\ next_index' = 1
    /\ UNCHANGED <<config_file, initial_disk, body_ticks, config, wrapped, start_time,
                   snapshot_time, disk,
                   panic, first_snapshot_time, cycle, selected>>

\* the time the body of a cycle takes, in ticks: a moment, or so long that it
\* ends after the next scheduled instant
Moment == {1}
BodyTicks == Moment \cup {(Hour + MaxOverrun) * TicksPerSecond}

\* create_btrfs_snapshot: Ok, Err (the tool did not start, or failed with a
\* readable stderr), or the expect on a stderr that is no UTF-8.  The time the
\* body of the cycle takes passes here, while the command runs.
Create ==
    /\ pc = "create"
    /\ \E elapsed \in body_ticks : now' = now + elapsed
    /\ \E outcome \in {"ok", "err", "stderr_utf8"} :
        /\ create_result' = outcome
        /\ disk' = IF outcome = "ok"
                   THEN disk \cup {[name |-> SnapshotDirnameTable[config.subvolume_name]
                                                                      [snapshot_time],
                                    is_dir |-> TRUE]}
                   ELSE disk
        /\ IF outcome = "stderr_utf8"
           THEN Panicked("stderr_utf8")
           ELSE pc' = "list" /\ UNCHANGED panic
    /\ UNCHANGED <<config_file, initial_disk, body_ticks, body_end,
                   config, wrapped, start_time, snapshot_time,
                   x, matching_snapshots, next_index, first_snapshot_time, cycle,
                   classified, destroy_calls, selected>>

\* btrfs_snapshots(config.snapshot_path): Err of read_dir goes to the Err arm of
\* the match, which only prints
List ==
    /\ pc = "list"
    /\ \E readable \in BOOLEAN :
        LET listed == BtrfsSnapshots(disk, config.subvolume_name)
        IN  IF ~readable
            THEN /\ x' = [ok |-> FALSE, paths |-> {}]
                 /\ pc' = "advance"
                 /\ UNCHANGED panic
            ELSE IF listed.panic # "none"
            THEN /\ Panicked(listed.panic)
                 /\ UNCHANGED x
            ELSE /\ x' = [ok |-> TRUE, paths |-> listed.paths]
                 /\ pc' = "collect"
                 /\ UNCHANGED panic
    /\ UNCHANGED <<config_file, initial_disk, body_ticks, body_end,
                   config, wrapped, now, start_time, snapshot_time, disk,
                   matching_snapshots, next_index, first_snapshot_time, cycle,
                   create_result, classified, destroy_calls, selected>>

\* lines 125-150: the Snapshots of this subvolume, sorted, and the guard
CollectStep ==
    /\ pc = "collect"
    /\ LET collected == Collect(x.paths, config.subvolume_name)
       IN  \/ /\ \E reason \in collected.panics : Panicked(reason)
              /\ UNCHANGED matching_snapshots
           \/ /\ \E sorted \in collected.sorted :
                    /\ matching_snapshots' = sorted
                    /\ pc' = AfterCollect(Len(sorted), config.hourly_limit)
              /\ UNCHANGED panic
    /\ UNCHANGED <<config_file, initial_disk, body_ticks, body_end,
                   config, wrapped, now, start_time, snapshot_time, disk, x,
                   next_index, first_snapshot_time, cycle, create_result, classified,
                   destroy_calls, selected>>

\* lines 151-247: the four tiers.  Overflow checks are a property of the build:
\* builds with and without them behave alike up to the first overflow of a run,
\* where the one panics and the other wraps, so the build is drawn there.
Classify ==
    /\ pc = "classify"
    /\ \E checks \in (IF wrapped THEN {FALSE} ELSE BOOLEAN) :
        LET result == Classification(matching_snapshots, config, snapshot_time, checks)
        IN  IF result.panic # "none"
            THEN /\ Panicked(result.panic)
                 /\ UNCHANGED <<matching_snapshots, classified, wrapped>>
            ELSE /\ matching_snapshots' = result.snapshots
                 /\ classified' = TRUE
                 /\ wrapped' = (wrapped \/ result.wrapped)
                 /\ pc' = "delete"
                 /\ UNCHANGED panic
    /\ next_index' = 1
    /\ UNCHANGED <<config_file, initial_disk, body_ticks, body_end,
                   config, now, start_time, snapshot_time, disk, x,
                   first_snapshot_time, cycle, create_result, destroy_calls, selected>>

\* the directory entry a path names, if it names one
EntryAt(path) == {e \in disk : PathPush(SnapshotPath, e.name) = path}

\* (mutant) a Snapshot whose destroy failed in an earlier cycle is not tried again
DeleteStepNoRetry ==
    /\ pc = "delete"
    /\ IF next_index > Len(matching_snapshots)
       THEN /\ pc' = "advance"
            /\ UNCHANGED <<next_index, disk, destroy_calls, panic>>
       ELSE LET snapshot == matching_snapshots[next_index]
            IN  IF Keep(snapshot) \/ snapshot.snapshot_path \in selected
                THEN /\ next_index' = next_index + 1
                     /\ UNCHANGED <<pc, disk, destroy_calls, panic>>
                ELSE \E outcome \in {"ok", "err", "stderr_utf8"} :
                        /\ destroy_calls' = destroy_calls \cup {snapshot.snapshot_path}
                        /\ disk' = IF outcome = "ok"
                                   THEN disk \ EntryAt(snapshot.snapshot_path)
                                   ELSE disk
                        /\ IF outcome = "stderr_utf8"
                           THEN Panicked("stderr_utf8") /\ UNCHANGED next_index
                           ELSE /\ next_index' = next_index + 1
                                /\ UNCHANGED <<pc, panic>>
    /\ UNCHANGED <<config_file, initial_disk, body_ticks, body_end,
                   config, wrapped, now, start_time, snapshot_time, x,
                   matching_snapshots, first_snapshot_time, cycle, create_result,
                   classified, selected>>

\* lines 249-256, one Snapshot: delete_btrfs_snapshot on a Snapshot not kept
DeleteStep ==
    /\ pc = "delete"
    /\ IF next_index > Len(matching_snapshots)
       THEN /\ pc' = "advance"
            /\ UNCHANGED <<next_index, disk, destroy_calls, panic>>
       ELSE LET snapshot == matching_snapshots[next_index]
            IN  IF Keep(snapshot)
                THEN /\ next_index' = next_index + 1
                     /\ UNCHANGED <<pc, disk, destroy_calls, panic>>
                ELSE \E outcome \in {"ok", "err", "stderr_utf8"} :
                        /\ destroy_calls' = destroy_calls \cup {snapshot.snapshot_path}
                        /\ disk' = IF outcome = "ok"
                                   THEN disk \ EntryAt(snapshot.snapshot_path)
                                   ELSE disk
                        /\ IF outcome = "stderr_utf8"
                           THEN Panicked("stderr_utf8") /\ UNCHANGED next_index
                           ELSE /\ next_index' = next_index + 1
                                /\ UNCHANGED <<pc, panic>>
    /\ UNCHANGED <<config_file, initial_disk, body_ticks, body_end,
                   config, wrapped, now, start_time, snapshot_time, x,
                   matching_snapshots, first_snapshot_time, cycle, create_result,
                   classified, selected>>

\* (mutant) the next instant aligned again from the wall clock
NextSnapshotTimeFromClock(t) ==
    FirstSnapshotTime(TruncToSecond(now) + 1,
                      WithMinuteSecondZero(TruncToSecond(now), config.minutes).time)

\* lines 262-264: snapshot_time = snapshot_time + 1 hour
NextSnapshotTime(t) == t + Hour

Advance ==
    /\ pc = "advance"
    /\ snapshot_time' = NextSnapshotTime(snapshot_time)
    /\ cycle' = cycle + 1
    /\ selected' = {p \in selected \cup destroy_calls : EntryAt(p) # {}}
    /\ pc' = "sleep"
    /\ UNCHANGED <<config_file, initial_disk, body_ticks, body_end,
                   config, wrapped, now, start_time, disk, x,
                   matching_snapshots, next_index, panic, first_snapshot_time,
                   create_result, classified, destroy_calls>>

Next ==
    \/ Sleep
    \/ Create
    \/ List
    \/ CollectStep
    \/ Classify
    \/ DeleteStep
    \/ Advance

----------------------------------------------------------------------------
(* Initial states. *)

\* no file at /etc/btrfs-snapshotter/config.toml
MissingFile == [status |-> "missing", table |-> <<>>]

\* the configuration file: missing, no TOML, or a table of fields
ConfigFiles ==
    {MissingFile,
     [status |-> "malformed", table |-> <<>>],
     [status |-> "valid",
      table |-> [minutes |-> 30, hourly_limit |-> 1, daily_limit |-> 1,
                 weekly_limit |-> 1, monthly_limit |-> 1]]}

InitCommon ==
    /\ wrapped = FALSE
    /\ x = [ok |-> FALSE, paths |-> {}]
    /\ matching_snapshots = <<>>
    /\ next_index = 1
    /\ panic = "none"
    /\ cycle = 0
    /\ create_result = "none"
    /\ classified = FALSE
    /\ destroy_calls = {}
    /\ selected = {}
    /\ body_end = now
    /\ initial_disk = disk
    /\ config_file = MissingFile

\* the loop, entered with the instant the startup computed.  main builds its
\* Config from literals (0, "@rootfs", 12, 7, 2, 2); the loop reads the fields
\* only through config, so the limits are drawn here from scaled-down ranges.
Init ==
    /\ config \in [minutes : {0}, subvolume_name : {RootfsName},
                   hourly_limit : 0..MaxLimit, daily_limit : 0..MaxLimit,
                   weekly_limit : 0..MaxLongLimit, monthly_limit : 0..MaxLongLimit]
    /\ now = StartHour * Hour * TicksPerSecond
    /\ start_time = StartHour * Hour
    /\ pc = "sleep"
    /\ snapshot_time = StartHour * Hour
    /\ first_snapshot_time = snapshot_time
    /\ disk \in {d \in SUBSET InitialCandidates(RootfsName) :
                    Cardinality(d) <= MaxInitialEntries}
    /\ body_ticks = Moment
    /\ InitCommon

Spec == Init /\ [][Next]_vars

\* the startup alone, from every clock read and every minute offset of an i8
\* around the valid range
StartupClocks ==
    {((StartHour * Hour + m * Minute + s) * TicksPerSecond) + f :
        m \in 0..(Hour \div Minute - 1), s \in {0, 1, Minute - 1},
        f \in 0..(TicksPerSecond - 1)}

InitStartup ==
    /\ config \in [minutes : -1..(Hour \div Minute), subvolume_name : {RootfsName},
                   hourly_limit : {0}, daily_limit : {0},
                   weekly_limit : {0}, monthly_limit : {0}]
    /\ now \in StartupClocks
    /\ start_time = 0
    /\ pc = "start"
    /\ snapshot_time = 0
    /\ first_snapshot_time = 0
    /\ disk = {}
    /\ body_ticks = Moment
    /\ InitCommon

SpecStartup == InitStartup /\ [][Startup]_vars

\* the process from its entry: any configuration file, a clock read in the
\* first seconds of an hour, a snapshot directory that is empty or holds the
\* snapshots of the hours before
InitMain ==
    /\ config_file \in ConfigFiles
    /\ config = [ConfigLiteral EXCEPT !.hourly_limit = 0, !.daily_limit = 0,
                                      !.weekly_limit = 0, !.monthly_limit = 0]
    /\ now \in {(StartHour * Hour + s) * TicksPerSecond : s \in {0, 1}}
    /\ start_time = 0
    /\ pc = "main"
    /\ snapshot_time = 0
    /\ first_snapshot_time = 0
    /\ disk \in {{}, {[name |-> SnapshotDirnameTable[RootfsName][h * Hour],
                       is_dir |-> TRUE] : h \in LiteralHours}}
    /\ body_ticks = Moment
    /\ wrapped = FALSE
    /\ x = [ok |-> FALSE, paths |-> {}]
    /\ matching_snapshots = <<>>
    /\ next_index = 1
    /\ panic = "none"
    /\ cycle = 0
    /\ create_result = "none"
    /\ classified = FALSE
    /\ destroy_calls = {}
    /\ selected = {}
    /\ body_end = now
    /\ initial_disk = disk

NextMain == Main \/ Startup \/ Next

SpecMain == InitMain /\ [][NextMain]_vars

\* the naming round trip: an empty snapshot directory, every subvolume name
InitCodec ==
    /\ config \in [minutes : {0}, subvolume_name : CodecNames,
                   hourly_limit : {1}, daily_limit : {1},
                   weekly_limit : {0}, monthly_limit : {0}]
    /\ now = StartHour * Hour * TicksPerSecond
    /\ start_time = StartHour * Hour
    /\ pc = "sleep"
    /\ snapshot_time = StartHour * Hour
    /\ first_snapshot_time = snapshot_time
    /\ disk = {}
    /\ body_ticks = Moment
    /\ InitCommon

SpecCodec == InitCodec /\ [][Next]_vars

\* the loop on a machine where the body of a cycle can overrun the hour: the
\* snapshots of earlier runs, every tier limit 1 and the hourly limit 0 or 1
InitClock ==
    /\ config \in [minutes : {0}, subvolume_name : {RootfsName},
                   hourly_limit : 0..MaxLongLimit, daily_limit : {1},
                   weekly_limit : {1}, monthly_limit : {1}]
    /\ now = StartHour * Hour * TicksPerSecond
    /\ start_time = StartHour * Hour
    /\ pc = "sleep"
    /\ snapshot_time = StartHour * Hour
    /\ first_snapshot_time = snapshot_time
    /\ disk \in {d \in SUBSET {[name |-> SnapshotDirnameTable[RootfsName][h * Hour],
                                  is_dir |-> TRUE] : h \in PriorHours} :
                    Cardinality(d) <= MaxInitialEntries}
    /\ body_ticks = BodyTicks
    /\ InitCommon

SpecClock == InitClock /\ [][Next]_vars

\* the classification ends: control leaves lines 151-247, to the deletion loop
\* or by a panic
ClassifyEnds == pc = "classify" /\ pc' \in {"delete", "panicked"}

\* the same runs, where the process is not stopped: a step that can be taken is
\* taken
SpecFair ==
    /\ InitClock
    /\ [][Next]_vars
    /\ WF_vars(Sleep)
    /\ WF_vars(Create)
    /\ WF_vars(List)
    /\ WF_vars(CollectStep)
    /\ WF_pc(ClassifyEnds)
    /\ WF_vars(DeleteStep)
    /\ WF_vars(Advance)

----------------------------------------------------------------------------
(* The claims. *)

Min(a, b) == IF a <= b THEN a ELSE b

Positions == 1..Len(matching_snapshots)

Flagged(tier) == {i \in Positions : matching_snapshots[i][tier]}

\* the classification of this cycle has run to its end
ClassificationDone == classified /\ pc \in {"delete", "advance"}

\* C1: once the classification has run, the Snapshots with keep_hourly are
\* exactly the hourly_limit Snapshots with the latest timestamps.
C1_HourlyKeepsMostRecent ==
    ClassificationDone =>
        /\ Cardinality(Flagged("keep_hourly")) = config.hourly_limit
        /\ \A i \in Flagged("keep_hourly") : \A j \in Positions \ Flagged("keep_hourly") :
              matching_snapshots[i].time >= matching_snapshots[j].time

\* C2: once the classification has run, each of the daily, weekly and monthly
\* tiers has flagged exactly min(limit, inventory size) Snapshots.
C2_TierCountIsMinLimitSize ==
    ClassificationDone =>
        /\ Cardinality(Flagged("keep_daily")) = Min(config.daily_limit, Len(matching_snapshots))
        /\ Cardinality(Flagged("keep_weekly")) = Min(config.weekly_limit, Len(matching_snapshots))
        /\ Cardinality(Flagged("keep_monthly")) = Min(config.monthly_limit, Len(matching_snapshots))

\* C3: in a cycle whose inventory has fewer than hourly_limit Snapshots the
\* classification does not run and destroy is invoked on nothing.
C3_NoDestroyBelowHourlyLimit ==
    Len(matching_snapshots) < config.hourly_limit =>
        destroy_calls = {} /\ ~classified

\* C3 witness: a cycle that listed some Snapshots, fewer than hourly_limit, ended.
C3_Witness ==
    /\ pc = "advance"
    /\ x.ok
    /\ Len(matching_snapshots) >= 1
    /\ Len(matching_snapshots) < config.hourly_limit
    /\ destroy_calls = {}

\* C4: a directory of the subvolume whose timestamp does not parse is left out
\* of the inventory and the cycle goes on with the entries that decode.
C4_DamagedEntryIsSkipped ==
    [][pc = "collect" =>
          /\ pc' \in {"classify", "advance"}
          /\ {matching_snapshots'[i].snapshot_path : i \in 1..Len(matching_snapshots')}
                = {p \in x.paths :
                     DecodeEntryTable[config.subvolume_name][p].kind = "push"}]_vars

\* C5: a cycle whose create failed is not aborted by that failure: the process
\* does not end in create, the cycle goes on to the listing.
C5_CycleSurvivesCreateFailure ==
    (create_result \in {"err", "stderr_utf8"} /\ pc = "panicked") => x.ok

\* C6: the first scheduled instant is at or after the clock read truncated to
\* the second, has minute field config.minutes and second field 0, and is less
\* than one hour after the clock read.
C6_FirstInstantAligned ==
    pc = "sleep" =>
        /\ snapshot_time >= start_time
        /\ (snapshot_time % Hour) \div Minute = config.minutes
        /\ snapshot_time % Minute = 0
        /\ snapshot_time - start_time < Hour

\* C6 witness: the minute of the hour had passed at the clock read, and the
\* instant is in the next hour.
C6_Witness ==
    /\ pc = "sleep"
    /\ (start_time % Hour) \div Minute > config.minutes
    /\ snapshot_time \div Hour = start_time \div Hour + 1

\* C7: the directory name made for a created snapshot is, once listed and
\* decoded against the same subvolume name, a Snapshot of the inventory with
\* the instant it was made from.
C7_NameRoundTrip ==
    (/\ create_result = "ok"
     /\ \/ x.ok /\ pc \in {"classify", "delete", "advance"}
        \/ x.ok /\ pc = "panicked" /\ panic \in {"file_name", "slice", "parse"})
    => /\ pc # "panicked"
       /\ \E i \in Positions :
            /\ matching_snapshots[i].time = snapshot_time
            /\ matching_snapshots[i].snapshot_path
                 = ListedPathTable[config.subvolume_name]
                       [SnapshotDirnameTable[config.subvolume_name][snapshot_time]]

\* C8: the classification applied again to the Snapshots it produced, flags
\* kept, changes no flag.
C8_ClassificationIdempotent ==
    ClassificationDone =>
        Classification(matching_snapshots, config, snapshot_time, FALSE).snapshots
            = matching_snapshots

\* C9: the scheduled instant of cycle k is the first scheduled instant plus k
\* hours, whatever the cycles before it did.
C9_InstantIsFirstPlusCycleHours ==
    snapshot_time = first_snapshot_time + cycle * Hour

\* C9 witness: two cycles are over, the last with a failed create and a failed
\* listing, and its body ended after the instant of the next cycle.
C9_Witness ==
    /\ pc = "sleep"
    /\ cycle >= 2
    /\ create_result = "err"
    /\ ~x.ok
    /\ now > snapshot_time * TicksPerSecond

\* the Snapshot of this cycle at a path is not kept
Unkept(path) ==
    \E i \in Positions :
        /\ matching_snapshots[i].snapshot_path = path
        /\ ~Keep(matching_snapshots[i])

UnkeptPaths ==
    {matching_snapshots[i].snapshot_path :
        i \in {j \in Positions : ~Keep(matching_snapshots[j])}}

\* C11: when the deletion loop of a cycle is over, destroy has been invoked on
\* exactly the Snapshots with no flag, whatever the destroys before it returned.
C11_DestroyExactlyUnkept ==
    (classified /\ pc \in {"advance", "panicked"}) => destroy_calls = UnkeptPaths

\* C12: no outcome of create, list or destroy and no directory entry ends the
\* process: main never leaves the loop.
C12_NoTerminalState ==
    pc # "panicked"

\* the positions the forward loop of a tier flags in the inventory of this cycle
ForwardFlagged(tier, limit) ==
    LET unflagged == [i \in Positions |-> [matching_snapshots[i] EXCEPT ![tier] = FALSE]]
        scan == ForwardScan(unflagged, 1, limit, Yesterday(snapshot_time), tier, FALSE)
    IN  {i \in Positions : scan.snapshots[i][tier]}

\* the day step of an instant: k for an instant in (ref - (k+1) days, ref - k days]
DayStep(t) == (snapshot_time - t) \div Day

\* C14: in a classification without overflow, no two Snapshots the forward loop
\* of a tier flags lie in the same day step before the reference time.
C14_OneSamplePerDayStep ==
    (ClassificationDone /\ ~wrapped) =>
        \A tier \in {<<"keep_daily", config.daily_limit>>,
                     <<"keep_weekly", config.weekly_limit>>,
                     <<"keep_monthly", config.monthly_limit>>} :
            \A i, j \in ForwardFlagged(tier[1], tier[2]) :
                i # j => DayStep(matching_snapshots[i].time)
                            # DayStep(matching_snapshots[j].time)

\* C17: the count of a tier never goes below 0: no decrement panics and none wraps.
C17_CountNeverUnderflows ==
    ~wrapped /\ panic # "overflow"

\* C18: with hourly_limit >= 1, destroy is not invoked on the snapshot the cycle
\* created.
C18_NewSnapshotSurvivesItsCycle ==
    (config.hourly_limit >= 1 /\ create_result = "ok" /\ pc \in {"delete", "advance"}) =>
        ListedPathTable[config.subvolume_name]
            [SnapshotDirnameTable[config.subvolume_name][snapshot_time]]
                \notin destroy_calls

\* the snapshots of the subvolume in the snapshot directory
SnapshotsOnDisk ==
    {e \in disk : e.is_dir /\ StartsWith(e.name, config.subvolume_name \o <<"-">>)}

\* every destroy of this cycle removed its snapshot
AllDestroysSucceeded == \A p \in destroy_calls : EntryAt(p) = {}

\* C19: at the end of a cycle whose listing succeeded and whose destroys all
\* succeeded, at most hourly_limit + daily_limit + weekly_limit + monthly_limit
\* snapshots of the subvolume remain, and at most hourly_limit - 1 when the
\* classification did not run.
C19_RetentionBoundsInventory ==
    (pc = "advance" /\ x.ok /\ AllDestroysSucceeded) =>
        Cardinality(SnapshotsOnDisk)
            <= IF classified
               THEN config.hourly_limit + config.daily_limit
                        + config.weekly_limit + config.monthly_limit
               ELSE config.hourly_limit - 1

\* C15: create is not invoked before the scheduled instant; it is invoked in the
\* second of the scheduled instant when the body before it ended by then, and at
\* the moment that body ended when it ended later.
C15_CreateAtScheduledInstant ==
    pc = "create" =>
        /\ now >= snapshot_time * TicksPerSecond
        /\ body_end <= snapshot_time * TicksPerSecond
              => TruncToSecond(now) = snapshot_time
        /\ body_end > snapshot_time * TicksPerSecond => now = body_end

\* the loop has been entered: a sleep, create, list or destroy has been performed
Scheduling ==
    \/ pc \in {"create", "list", "collect", "classify", "delete", "advance"}
    \/ cycle > 0

\* C13: with a configuration file that is missing or malformed the process does
\* not enter the loop, and the loop runs with the minute offset and the limits
\* of the configuration file.
C13_ConfigFileGovernsTheRun ==
    Scheduling =>
        /\ config_file.status = "valid"
        /\ config.minutes = config_file.table.minutes
        /\ config.hourly_limit = config_file.table.hourly_limit
        /\ config.daily_limit = config_file.table.daily_limit
        /\ config.weekly_limit = config_file.table.weekly_limit
        /\ config.monthly_limit = config_file.table.monthly_limit

\* C16: every path destroy is invoked on is the path of a directory entry of the
\* snapshot root whose name starts with the subvolume prefix.
C16_DestroyOnlyChildrenOfRoot ==
    [][\A p \in destroy_calls' \ destroy_calls :
          \E e \in disk :
              /\ e.is_dir
              /\ StartsWith(e.name, config.subvolume_name \o <<"-">>)
              /\ PathPush(SnapshotPath, e.name) = p]_vars

\* nothing has failed: no panic, no failed create, listing or destroy
RunSucceeds ==
    /\ pc # "panicked"
    /\ create_result \in {"none", "ok"}
    /\ pc \in {"collect", "classify", "delete", "advance"} => x.ok
    /\ AllDestroysSucceeded

\* with hourly_limit >= 1 the oldest Snapshot of a classified inventory carries
\* keep_hourly: the deletion loop never reaches it
OldestIsKeptHourly ==
    (ClassificationDone /\ config.hourly_limit >= 1 /\ Len(matching_snapshots) >= 1)
        => matching_snapshots[1].keep_hourly

\* with hourly_limit >= 1 a directory that held Snapshots of earlier runs at the
\* start never ceases to hold one of them
PriorSnapshotAlwaysRemains ==
    (config.hourly_limit >= 1 /\ initial_disk # {}) => disk \cap initial_disk # {}

====
